---- MODULE Spec2Model ----
(***************************************************************************)
(* Model of sdk/rendering/android/vulkan_distortion_renderer.cc:           *)
(* the VulkanDistortionRenderer object, the Vulkan objects it creates and  *)
(* destroys on the logical device, and the calls it issues.                *)
(*                                                                         *)
(* Every public operation (factory + constructor, SetMesh,                 *)
(* RenderEyeToDisplay, destructor) is one action.  The private methods are *)
(* operators that take the "world" w = [r, d, trace] and return the world  *)
(* after the method: r is the renderer object (its data members), d is the *)
(* logical device (the objects that exist on it), trace is the sequence of *)
(* Vulkan calls issued so far by the running operation.                    *)
(*                                                                         *)
(* Handles.  Objects created on the device get the handles 1, 2, 3, ...    *)
(* in creation order.  Borrowed handles (render passes, eye textures,      *)
(* swapchain images, devices) are numbers above 1000.  32-bit unsigned     *)
(* members are kept as their 32-bit two's-complement bit pattern, so that  *)
(* a cast between int and uint32_t changes nothing and the operations      *)
(* (division, conversion to float) interpret the pattern.                  *)
(***************************************************************************)
EXTENDS Integers, Sequences, FiniteSets, TLC

VARIABLES phase, renderer, device, trace, lastOp, nOps

vars == <<phase, renderer, device, trace, lastOp, nOps>>

(***************************************************************************)
(* Bounds and program constants                                            *)
(***************************************************************************)
\* Number of SetMesh / RenderEyeToDisplay calls on one renderer.
MaxOps == 3

\* Same, for the specification that enumerates the draw regions.
MaxRegionOps == 1
MaxFailureOps == 2

\* Largest memoryTypeBits the allocator is applied to.
MaxTypeFilter == 15

kLeft == 0
kRight == 1
VK_NULL_HANDLE == 0
INT_MAX == 2147483647

Eyes == {kLeft, kRight}
NoEye == kRight + 1

\* sizeof(Vertex), sizeof(uint16_t), sizeof(UniformBufferObject), in bytes
SizeofFloat == 2 + 2
SizeofVertex == 4 * SizeofFloat
SizeofIndex == 1 + 1
SizeofUniformBufferObject == 4 * SizeofFloat

(***************************************************************************)
(* The environment: borrowed handles and inputs                            *)
(***************************************************************************)
\* Render-pass handles a caller may put in the target.
RenderPasses == {1001, 1002}

\* Swapchain lengths vkGetSwapchainImagesKHR may report.
SwapchainLengths == {2}

\* The swapchain's images, by index (0-based).
SwapchainImage(i) == 2000 + i

\* The caller's configuration (CardboardVulkanDistortionRendererConfig).
Config == [physical_device |-> 5001, logical_device |-> 5002, vk_swapchain |-> 5003]

CommandBuffer == 4001

\* What the memory the object is constructed in may hold for the members the
\* constructor never writes: all zero, or the values a previous renderer left
\* there (a stale render pass equal to one the caller uses, stale handles, a
\* stale count).
HeapImages ==
  { [render_pass |-> 0, handle |-> 0, count |-> 0],
    [render_pass |-> 1001, handle |-> -7, count |-> 6] }

\* The physical device's memory types (propertyFlags of each), and the
\* memoryTypeBits every buffer of the device reports.
HOST_VISIBLE == "HOST_VISIBLE"
HOST_COHERENT == "HOST_COHERENT"
DeviceMemoryTypes ==
  << {"DEVICE_LOCAL"},
     {HOST_VISIBLE, HOST_COHERENT},
     {HOST_VISIBLE, HOST_COHERENT, "HOST_CACHED"} >>
BufferMemoryTypeBits == 1 + 2 + 4

\* Meshes (CardboardMesh): flat positions, flat uvs, indices (int).
QuadMesh ==
  [ n_vertices |-> 4,
    vertices |-> <<-1, -1, 1, -1, -1, 1, 1, 1>>,
    uvs |-> <<0, 0, 10, 0, 0, 10, 10, 10>>,
    n_indices |-> 6,
    indices |-> <<0, 1, 2, 2, 1, 3>> ]
TriMesh ==
  [ n_vertices |-> 3,
    vertices |-> <<-2, -3, 4, -5, 6, 7>>,
    uvs |-> <<1, 2, 3, 4, 5, 6>>,
    n_indices |-> 3,
    indices |-> <<0, 65537, 2>> ]
Meshes == {QuadMesh, TriMesh}

\* Eye texture descriptions (CardboardEyeTextureDescription).
Desc(tex, lu, ru, tv, bv) ==
  [texture |-> tex, left_u |-> lu, right_u |-> ru, top_v |-> tv, bottom_v |-> bv]

\* A frame: the draw region and the two eye descriptions.
Frame(x, y, w, h, l, r) ==
  [x |-> x, y |-> y, width |-> w, height |-> h, left_eye |-> l, right_eye |-> r]

FrameA == Frame(0, 0, 1000, 500, Desc(3001, 0, 1, 1, 0), Desc(3002, 2, 3, 4, 5))
FrameB == Frame(3, 5, 7, 9, Desc(3003, 6, 7, 8, 9), Desc(3004, 0, 1, 1, 0))
Frames == {FrameA, FrameB}

\* Draw regions for the specification that enumerates them: the two above, one
\* whose right half starts beyond INT_MAX, one with a negative origin, one with
\* a negative width and height.
FrameC == Frame(INT_MAX - 2, 1, 7, 2, Desc(3001, 0, 1, 1, 0), Desc(3002, 2, 3, 4, 5))
FrameD == Frame(-20, -4, 10, 6, Desc(3001, 0, 1, 1, 0), Desc(3002, 2, 3, 4, 5))
FrameE == Frame(4, 4, -6, -2, Desc(3001, 0, 1, 1, 0), Desc(3002, 2, 3, 4, 5))
RegionFrames == {FrameA, FrameB, FrameC, FrameD, FrameE}

(***************************************************************************)
(* Integer conversions                                                     *)
(***************************************************************************)
\* Two's-complement addition of two 32-bit patterns (int + uint32_t is done in
\* uint32_t and wraps; the cast back to int32_t keeps the bits).
WrapAdd32(a, b) ==
  IF a > 0 /\ b > 0 /\ a > INT_MAX - b
    THEN ((a - INT_MAX) - 1) + ((b - INT_MAX) - 1)
    ELSE IF a < 0 /\ b < 0 /\ a < ((0 - INT_MAX) - 1) - b
           THEN ((a + INT_MAX) + 1) + ((b + INT_MAX) + 1)
           ELSE a + b

\* current_image_width_ / 2 on a uint32_t given as its bit pattern.
UDiv2(b) ==
  IF b >= 0 THEN b \div 2 ELSE (((b + INT_MAX) + 1) \div 2) + 1073741824

\* int -> uint16_t
ToUint16(n) == n % 65536

(***************************************************************************)
(* The logical device: objects by handle                                   *)
(***************************************************************************)
Call(call, eye, h, arg) == [call |-> call, eye |-> eye, h |-> h, arg |-> arg]

\* A call is issued unless the process has already died in this operation.
Log(w, c) == IF w.crashed THEN w ELSE [w EXCEPT !.trace = Append(@, c)]

\* The handle the last call of w wrote to its output parameter.
Out(w) == w.trace[Len(w.trace)].h

NextHandle(w) == Len(w.d.kind) + 1

IsCreated(d, h) == h \in 1..Len(d.kind)

IsLive(d, h) == IsCreated(d, h) /\ d.destroyed[h] = 0

\* What a failed creation leaves in its output parameter: VK_NULL_HANDLE for
\* vkCreateGraphicsPipelines, an indeterminate value for the others.
FailedOut(w, call) ==
  IF call = "vkCreateGraphicsPipelines" THEN VK_NULL_HANDLE ELSE w.oob

\* A vkCreate* / vkAllocate* call.  When it succeeds there is a new object of
\* kind k whose creation parameter is info; when it is one of w.failing it
\* creates nothing.
VkCreate(w, call, eye, k, info) ==
  IF w.crashed THEN w
  ELSE IF call \in w.failing
    THEN Log(w, Call(call, eye, FailedOut(w, call), info))
    ELSE [w EXCEPT !.d.kind = Append(@, k),
                   !.d.destroyed = Append(@, 0),
                   !.d.info = Append(@, info),
                   !.d.data = Append(@, <<>>),
                   !.trace = Append(@, Call(call, eye, Len(w.d.kind) + 1, info))]

\* A vkDestroy* / vkFree* call on handle h.
VkDestroy(w, call, eye, h) ==
  LET w1 == Log(w, Call(call, eye, h, 0))
  IN IF IsCreated(w.d, h) /\ ~w.crashed THEN [w1 EXCEPT !.d.destroyed[h] = @ + 1] ELSE w1

EmptyDevice == [kind |-> <<>>, destroyed |-> <<>>, info |-> <<>>, data |-> <<>>]

(***************************************************************************)
(* The renderer object                                                     *)
(***************************************************************************)
\* The data members before the constructor body runs (lines 769-796):
\* graphics_pipeline_ has a default member initializer, the vectors are empty,
\* every other member holds what the memory held.
RawObject(heap) ==
  [ physical_device_ |-> heap.handle,
    logical_device_ |-> heap.handle,
    swapchain_ |-> heap.handle,
    current_render_pass_ |-> heap.render_pass,
    current_image_width_ |-> heap.count,
    current_image_height_ |-> heap.count,
    indices_count_ |-> heap.count,
    swapchain_image_count_ |-> heap.count,
    texture_sampler_ |-> heap.handle,
    descriptor_set_layout_ |-> heap.handle,
    pipeline_layout_ |-> heap.handle,
    swapchain_images_ |-> <<>>,
    swapchain_views_ |-> <<>>,
    viewport_ |-> [e \in Eyes |-> [x |-> heap.count, y |-> heap.count,
                                    width |-> heap.count, height |-> heap.count]],
    scissor_ |-> [e \in Eyes |-> [offset |-> [x |-> heap.count, y |-> heap.count],
                                   extent |-> [width |-> heap.count, height |-> heap.count]]],
    graphics_pipeline_ |-> [e \in Eyes |-> VK_NULL_HANDLE],
    vertex_buffers_ |-> [e \in Eyes |-> heap.handle],
    vertex_buffers_memory_ |-> [e \in Eyes |-> heap.handle],
    index_buffers_ |-> [e \in Eyes |-> heap.handle],
    index_buffers_memory_ |-> [e \in Eyes |-> heap.handle],
    uniform_buffers_ |-> [e \in Eyes |-> heap.handle],
    uniform_buffers_memory_ |-> [e \in Eyes |-> heap.handle],
    descriptor_pool_ |-> [e \in Eyes |-> heap.handle],
    descriptor_sets_ |-> [e \in Eyes |-> <<>>],
    image_views_ |-> [e \in Eyes |-> <<>>] ]

(***************************************************************************)
(* Resource allocator                                                      *)
(***************************************************************************)
RECURSIVE FindMemoryTypeFrom(_, _, _)
FindMemoryTypeFrom(i, typeFilter, properties) ==
  IF i >= Len(DeviceMemoryTypes)
    THEN 0
    ELSE IF (typeFilter \div (2 ^ i)) % 2 = 1
            /\ properties \subseteq DeviceMemoryTypes[i + 1]
           THEN i
           ELSE FindMemoryTypeFrom(i + 1, typeFilter, properties)

\* A scan that starts at the second memory type.
FindMemoryType_fromSecond(typeFilter, properties) ==
  FindMemoryTypeFrom(1, typeFilter, properties)

FindMemoryType(typeFilter, properties) ==
  FindMemoryTypeFrom(0, typeFilter, properties)

\* CreateBuffer: the last call binds the buffer (h) to its memory (arg), the
\* two values the references `buffer` and `buffer_memory` received.
CreateBuffer(w, eye, size, usage, properties) ==
  LET w1 == VkCreate(w, "vkCreateBuffer", eye, usage, size)
      buffer == Out(w1)
      w2 == VkCreate(w1, "vkAllocateMemory", eye, "memory",
                     FindMemoryType(w1.memoryTypeBits, properties))
      memory == Out(w2)
  IN Log(w2, Call("vkBindBufferMemory", eye, buffer, memory))

\* The memory CreateBuffer, the last step of w, returned with the buffer Out(w).
OutMemory(w) == w.trace[Len(w.trace)].arg

\* vkMapMemory + memcpy + vkUnmapMemory of `content` into `memory`.  `data` is
\* a local without initializer that only a successful vkMapMemory sets; the
\* memcpy through an unset `data` either faults (the process dies there) or
\* lands somewhere else.
MapAndCopy(w, eye, memory, content) ==
  LET w1 == Log(w, Call("vkMapMemory", eye, memory, Len(content)))
      mapped == IsCreated(w1.d, memory) /\ "vkMapMemory" \notin w1.failing
      w2 == IF w1.crashed THEN w1
            ELSE IF mapped THEN [w1 EXCEPT !.d.data[memory] = content]
            ELSE IF w1.faults THEN [w1 EXCEPT !.crashed = TRUE]
            ELSE w1
  IN Log(w2, Call("vkUnmapMemory", eye, memory, 0))

(***************************************************************************)
(* Conversion to float.  A float holding m * 2^e is the pair <<m, e>> with *)
(* m odd and |m| < 2^24, or <<0, 0>>.                                      *)
(***************************************************************************)
RECURSIVE Normalize(_, _)
Normalize(m, e) ==
  IF m = 0 THEN <<0, 0>>
  ELSE IF m % 2 = 0 THEN Normalize(m \div 2, e + 1) ELSE <<m, e>>

\* Shift v right until it fits 24 bits; g is the last bit shifted out, s whether
\* an earlier one was set; then round to nearest, ties to even.
RECURSIVE RoundShift(_, _, _, _)
RoundShift(v, e, g, s) ==
  IF v >= 16777216
    THEN RoundShift(v \div 2, e + 1, v % 2, s \/ g = 1)
    ELSE IF g = 1 /\ (s \/ v % 2 = 1) THEN Normalize(v + 1, e) ELSE Normalize(v, e)

FloatOfNat(v) == RoundShift(v, 0, 0, FALSE)

Negate(f) == <<0 - f[1], f[2]>>

\* int -> float
FloatOfInt(n) ==
  IF n >= 0 THEN FloatOfNat(n)
  ELSE IF n < 0 - INT_MAX THEN <<-1, 31>> ELSE Negate(FloatOfNat(0 - n))

\* uint32_t (bit pattern) -> float
FloatOfUint32(b) ==
  IF b >= 0 THEN FloatOfNat(b) ELSE RoundShift(UDiv2(b), 1, b % 2, FALSE)

(***************************************************************************)
(* Construction                                                            *)
(***************************************************************************)
CreateDescriptorSetLayout(w) ==
  LET w1 == VkCreate(w, "vkCreateDescriptorSetLayout", NoEye, "descriptor_set_layout", 2)
  IN [w1 EXCEPT !.r.descriptor_set_layout_ = NextHandle(w)]

CreatePipelineLayout(w) ==
  LET w1 == VkCreate(w, "vkCreatePipelineLayout", NoEye, "pipeline_layout",
                     w.r.descriptor_set_layout_)
  IN [w1 EXCEPT !.r.pipeline_layout_ = NextHandle(w)]

CreateTextureSampler(w) ==
  LET w1 == VkCreate(w, "vkCreateSampler", NoEye, "sampler", 0)
  IN [w1 EXCEPT !.r.texture_sampler_ = NextHandle(w)]

\* CreateImageView: the view is Out of the result.
CreateImageView(w, eye, image) == VkCreate(w, "vkCreateImageView", eye, "image_view", image)

RECURSIVE CreateSwapchainImageViewsFrom(_, _)
CreateSwapchainImageViewsFrom(w, i) ==
  IF i >= Len(w.r.swapchain_images_)
    THEN w
    ELSE LET w1 == CreateImageView(w, NoEye, w.r.swapchain_images_[i + 1])
         IN CreateSwapchainImageViewsFrom(
              [w1 EXCEPT !.r.swapchain_views_[i + 1] = NextHandle(w)], i + 1)

CreateSwapchainImageViews(w) ==
  LET n == Len(w.r.swapchain_images_)
      w1 == Log([w EXCEPT !.r.swapchain_images_ = [i \in 1..n |-> SwapchainImage(i - 1)]],
                Call("vkGetSwapchainImagesKHR", NoEye, w.r.swapchain_, n))
  IN CreateSwapchainImageViewsFrom(w1, 0)

CreateSharedVulkanObjects(w) ==
  CreateSwapchainImageViews(CreateTextureSampler(CreatePipelineLayout(
    CreateDescriptorSetLayout(w))))

CreateDescriptorPool(w, eye) ==
  LET w1 == VkCreate(w, "vkCreateDescriptorPool", eye, "descriptor_pool",
                     w.r.swapchain_image_count_)
  IN [w1 EXCEPT !.r.descriptor_pool_[eye] = NextHandle(w)]

CreateUniformBuffers(w, eye) ==
  LET w1 == CreateBuffer(w, eye, SizeofUniformBufferObject, "uniform_buffer",
                         {HOST_VISIBLE, HOST_COHERENT})
  IN [w1 EXCEPT !.r.uniform_buffers_[eye] = NextHandle(w),
                !.r.uniform_buffers_memory_[eye] = NextHandle(w) + 1]

\* vkAllocateDescriptorSets: one call, swapchain_image_count_ sets from the
\* eye's pool; the sets get the next handles in order.
CreateDescriptorSets(w, eye) ==
  LET n == w.r.swapchain_image_count_
      first == NextHandle(w)
      pool == w.r.descriptor_pool_[eye]
  IN [w EXCEPT !.d.kind = @ \o [i \in 1..n |-> "descriptor_set"],
               !.d.destroyed = @ \o [i \in 1..n |-> 0],
               !.d.info = @ \o [i \in 1..n |-> pool],
               !.d.data = @ \o [i \in 1..n |-> <<>>],
               !.trace = Append(@, Call("vkAllocateDescriptorSets", eye, pool, n)),
               !.r.descriptor_sets_[eye] = [i \in 1..n |-> first + i - 1]]

\* A per-eye construction that allocates the sets before the uniform buffer.
CreatePerEyeVulkanObjects_setsFirst(w, eye) ==
  LET w1 == CreateUniformBuffers(CreateDescriptorSets(CreateDescriptorPool(w, eye), eye), eye)
  IN [w1 EXCEPT !.r.image_views_[eye] =
                  [i \in 1..w.r.swapchain_image_count_ |-> VK_NULL_HANDLE]]

CreatePerEyeVulkanObjects(w, eye) ==
  LET w1 == CreateDescriptorSets(CreateUniformBuffers(CreateDescriptorPool(w, eye), eye), eye)
  IN [w1 EXCEPT !.r.image_views_[eye] =
                  [i \in 1..w.r.swapchain_image_count_ |-> VK_NULL_HANDLE]]

\* The constructor body: heap is what the object's memory held, load_ok the
\* result of LoadVulkan(), count what vkGetSwapchainImagesKHR reports.
Constructor(heap, load_ok, count) ==
  LET w0 == [r |-> RawObject(heap), d |-> EmptyDevice, trace |-> <<>>, oob |-> heap.handle,
             failing |-> {}, faults |-> FALSE, crashed |-> FALSE,
             memoryTypeBits |-> BufferMemoryTypeBits]
  IN IF ~load_ok
       THEN w0
       ELSE LET w1 == Log(w0, Call("vkGetSwapchainImagesKHR", NoEye,
                                   Config.vk_swapchain, 0))
                w2 == [w1 EXCEPT
                         !.r.physical_device_ = Config.physical_device,
                         !.r.logical_device_ = Config.logical_device,
                         !.r.swapchain_ = Config.vk_swapchain,
                         !.r.swapchain_image_count_ = count,
                         !.r.swapchain_images_ = [i \in 1..count |-> VK_NULL_HANDLE],
                         !.r.swapchain_views_ = [i \in 1..count |-> VK_NULL_HANDLE],
                         !.r.current_image_width_ = 0,
                         !.r.current_image_height_ = 0]
            IN CreatePerEyeVulkanObjects(
                 CreatePerEyeVulkanObjects(CreateSharedVulkanObjects(w2), kLeft), kRight)

(***************************************************************************)
(* Mesh store                                                              *)
(***************************************************************************)
\* The interleaved Vertex array SetMesh builds, as the floats of the records
\* in memory order: pos_x, pos_y, tex_u, tex_v of vertex 0, of vertex 1, ...
RECURSIVE InterleaveFrom(_, _)
InterleaveFrom(mesh, i) ==
  IF i >= mesh.n_vertices
    THEN <<>>
    ELSE << mesh.vertices[2 * i + 1], mesh.vertices[2 * i + 2],
            mesh.uvs[2 * i + 1], mesh.uvs[2 * i + 2] >>
         \o InterleaveFrom(mesh, i + 1)

\* An interleave that puts the texture coordinates first.
Interleave_uvFirst(mesh) ==
  LET v == InterleaveFrom(mesh, 0)
  IN [i \in 1..Len(v) |->
        IF (i - 1) % 4 < 2 THEN v[i + 2] ELSE v[i - 2]]

Interleave(mesh) == InterleaveFrom(mesh, 0)

\* The uint16_t index array SetMesh builds.
NarrowIndices(mesh) == [i \in 1..mesh.n_indices |-> ToUint16(mesh.indices[i])]

\* vertices: the floats of the Vertex records, 4 per record.
CreateVertexBuffer(w, eye, vertices) ==
  LET buffer_size == SizeofVertex * (Len(vertices) \div 4)
      w1 == CreateBuffer(w, eye, buffer_size, "vertex_buffer", {HOST_VISIBLE, HOST_COHERENT})
      w2 == [w1 EXCEPT !.r.vertex_buffers_[eye] = Out(w1),
                       !.r.vertex_buffers_memory_[eye] = OutMemory(w1)]
  IN MapAndCopy(w2, eye, w2.r.vertex_buffers_memory_[eye], vertices)

CreateIndexBuffer(w, eye, indices) ==
  LET buffer_size == SizeofIndex * Len(indices)
      w1 == CreateBuffer(w, eye, buffer_size, "index_buffer", {HOST_VISIBLE, HOST_COHERENT})
      w2 == [w1 EXCEPT !.r.index_buffers_[eye] = Out(w1),
                       !.r.index_buffers_memory_[eye] = OutMemory(w1)]
  IN MapAndCopy(w2, eye, w2.r.index_buffers_memory_[eye], indices)

SetMeshBody(w, mesh, eye) ==
  LET w1 == CreateVertexBuffer(w, eye, Interleave(mesh))
      w2 == CreateIndexBuffer(w1, eye, NarrowIndices(mesh))
  IN [w2 EXCEPT !.r.indices_count_ = mesh.n_indices]

(***************************************************************************)
(* Pipeline builder                                                        *)
(***************************************************************************)
\* A clean that forgets the pipeline without destroying it.
CleanPipeline_noDestroy(w, eye) ==
  [w EXCEPT !.r.graphics_pipeline_[eye] = VK_NULL_HANDLE]

CleanPipeline(w, eye) ==
  IF w.r.graphics_pipeline_[eye] # VK_NULL_HANDLE
    THEN [VkDestroy(w, "vkDestroyPipeline", eye, w.r.graphics_pipeline_[eye])
            EXCEPT !.r.graphics_pipeline_[eye] = VK_NULL_HANDLE]
    ELSE w

\* LoadShader: the module is Out of the result.
LoadShader(w, eye, content) == VkCreate(w, "vkCreateShaderModule", eye, "shader_module", content)

\* The pipeline is built against the ambient current_render_pass_ with the
\* shared pipeline layout.
CreateGraphicsPipeline(w, eye) ==
  LET w1 == CleanPipeline(w, eye)
      w2 == LoadShader(w1, eye, "distortion_vert")
      vertex_shader == Out(w2)
      w3 == LoadShader(w2, eye, "distortion_frag")
      fragment_shader == Out(w3)
      w4 == VkCreate(w3, "vkCreateGraphicsPipelines", eye, "pipeline",
                     w3.r.current_render_pass_)
      w5 == [w4 EXCEPT !.r.graphics_pipeline_[eye] = Out(w4)]
  IN VkDestroy(VkDestroy(w5, "vkDestroyShaderModule", eye, vertex_shader),
               "vkDestroyShaderModule", eye, fragment_shader)

(***************************************************************************)
(* Frame renderer                                                          *)
(***************************************************************************)
\* vec[index] of a std::vector; past its end the read yields whatever the
\* memory there holds (w.oob).
At(w, vec, index) == IF index + 1 \in DOMAIN vec THEN vec[index + 1] ELSE w.oob

\* A clean that forgets the view it drops.
CleanTextureImageView_noDestroy(w, eye, index) ==
  [w EXCEPT !.r.image_views_[eye] =
              [i \in DOMAIN @ |-> IF i = index + 1 THEN VK_NULL_HANDLE ELSE @[i]]]

CleanTextureImageView(w, eye, index) ==
  IF At(w, w.r.image_views_[eye], index) # VK_NULL_HANDLE
    THEN [VkDestroy(w, "vkDestroyImageView", eye, At(w, w.r.image_views_[eye], index))
            EXCEPT !.r.image_views_[eye] =
                     [i \in DOMAIN @ |-> IF i = index + 1 THEN VK_NULL_HANDLE ELSE @[i]]]
    ELSE w

\* A uniform write that goes to the left eye's memory whatever the eye.
UpdateUniformBuffer_leftMemory(w, eye, ubo) ==
  MapAndCopy(w, eye, w.r.uniform_buffers_memory_[kLeft], ubo)

UpdateUniformBuffer(w, eye, ubo) ==
  MapAndCopy(w, eye, w.r.uniform_buffers_memory_[eye], ubo)

\* A split at the full width instead of half of it.
ScissorOffsetX_fullWidth(eye, x, current_image_width) ==
  IF eye = kLeft THEN x ELSE WrapAdd32(x, current_image_width)

\* The scissor offset's x for an eye.
ScissorOffsetX(eye, x, current_image_width) ==
  IF eye = kLeft THEN x ELSE WrapAdd32(x, UDiv2(current_image_width))

ScissorExtent(current_image_width, current_image_height) ==
  [width |-> UDiv2(current_image_width), height |-> current_image_height]

\* A viewport half as wide as the draw region.
Viewport_halfWidth(x, y, current_image_width, current_image_height) ==
  [ x |-> FloatOfInt(x), y |-> FloatOfInt(y),
    width |-> FloatOfUint32(UDiv2(current_image_width)),
    height |-> FloatOfUint32(current_image_height),
    minDepth |-> FloatOfInt(0), maxDepth |-> FloatOfInt(1) ]

Viewport(x, y, current_image_width, current_image_height) ==
  [ x |-> FloatOfInt(x), y |-> FloatOfInt(y),
    width |-> FloatOfUint32(current_image_width),
    height |-> FloatOfUint32(current_image_height),
    minDepth |-> FloatOfInt(0), maxDepth |-> FloatOfInt(1) ]

UpdateViewportAndScissor(w, eye, x, y) ==
  [w EXCEPT
     !.r.scissor_[eye] =
        [ offset |-> [x |-> ScissorOffsetX(eye, x, w.r.current_image_width_), y |-> y],
          extent |-> ScissorExtent(w.r.current_image_width_, w.r.current_image_height_) ],
     !.r.viewport_[eye] =
        Viewport(x, y, w.r.current_image_width_, w.r.current_image_height_)]

\* An update that always writes the set of the first slot.
UpdateDescriptorSets_firstSlot(w, eye, index) ==
  LET set == w.r.descriptor_sets_[eye][1]
      writes == [ imageView |-> w.r.image_views_[eye][index + 1],
                  sampler |-> w.r.texture_sampler_,
                  buffer |-> w.r.uniform_buffers_[eye] ]
      w1 == Log(w, Call("vkUpdateDescriptorSets", eye, set, writes))
  IN IF IsCreated(w.d, set) THEN [w1 EXCEPT !.d.data[set] = writes] ELSE w1

\* vkUpdateDescriptorSets with two writes to the set of (eye, index):
\* binding 0 = (sampler, image view), binding 1 = uniform buffer.
UpdateDescriptorSets(w, eye, index) ==
  LET set == w.r.descriptor_sets_[eye][index + 1]
      writes == [ imageView |-> w.r.image_views_[eye][index + 1],
                  sampler |-> w.r.texture_sampler_,
                  buffer |-> w.r.uniform_buffers_[eye] ]
      w1 == Log(w, Call("vkUpdateDescriptorSets", eye, set, writes))
  IN IF IsCreated(w.d, set) /\ ~w.crashed THEN [w1 EXCEPT !.d.data[set] = writes] ELSE w1

\* A recording that draws as many indices as the eye's own index buffer holds.
BindCommandBuffer_ownIndexCount(w, eye, command_buffer, image_index, indices_count) ==
  IF w.crashed THEN w ELSE
  [w EXCEPT !.trace = @ \o
     << Call("vkCmdBindPipeline", eye, w.r.graphics_pipeline_[eye], command_buffer),
        Call("vkCmdSetViewport", eye, command_buffer, w.r.viewport_[eye]),
        Call("vkCmdSetScissor", eye, command_buffer, w.r.scissor_[eye]),
        Call("vkCmdBindVertexBuffers", eye, w.r.vertex_buffers_[eye], command_buffer),
        Call("vkCmdBindIndexBuffer", eye, w.r.index_buffers_[eye], command_buffer),
        Call("vkCmdBindDescriptorSets", eye, w.r.descriptor_sets_[eye][image_index + 1],
             command_buffer),
        Call("vkCmdDrawIndexed", eye, command_buffer,
             [indexCount |-> IF IsCreated(w.d, w.r.index_buffers_[eye])
                               THEN w.d.info[w.r.index_buffers_[eye]] \div SizeofIndex
                               ELSE indices_count,
              instanceCount |-> 1, firstIndex |-> 0,
              vertexOffset |-> 0, firstInstance |-> 0]) >>]

BindCommandBuffer(w, eye, command_buffer, image_index, indices_count) ==
  IF w.crashed THEN w ELSE
  [w EXCEPT !.trace = @ \o
     << Call("vkCmdBindPipeline", eye, w.r.graphics_pipeline_[eye], command_buffer),
        Call("vkCmdSetViewport", eye, command_buffer, w.r.viewport_[eye]),
        Call("vkCmdSetScissor", eye, command_buffer, w.r.scissor_[eye]),
        Call("vkCmdBindVertexBuffers", eye, w.r.vertex_buffers_[eye], command_buffer),
        Call("vkCmdBindIndexBuffer", eye, w.r.index_buffers_[eye], command_buffer),
        Call("vkCmdBindDescriptorSets", eye, w.r.descriptor_sets_[eye][image_index + 1],
             command_buffer),
        Call("vkCmdDrawIndexed", eye, command_buffer,
             [indexCount |-> indices_count, instanceCount |-> 1, firstIndex |-> 0,
              vertexOffset |-> 0, firstInstance |-> 0]) >>]

\* A frame step that writes the uniform buffer after the descriptor update.
RenderDistortionMesh_uniformLast(w, eye_description, eye, command_buffer, image_index) ==
  LET ubo == << eye_description.left_u, eye_description.right_u,
                eye_description.top_v, eye_description.bottom_v >>
      w1 == CleanTextureImageView(w, eye, image_index)
      w2 == CreateImageView(w1, eye, eye_description.texture)
      w3 == [w2 EXCEPT !.r.image_views_[eye][image_index + 1] = Out(w2)]
      w4 == UpdateDescriptorSets(w3, eye, image_index)
      w5 == UpdateUniformBuffer(w4, eye, ubo)
  IN BindCommandBuffer(w5, eye, command_buffer, image_index, w5.r.indices_count_)

\* A frame step that updates the descriptor set before it refreshes the view.
RenderDistortionMesh_updateFirst(w, eye_description, eye, command_buffer, image_index) ==
  LET ubo == << eye_description.left_u, eye_description.right_u,
                eye_description.top_v, eye_description.bottom_v >>
      w1 == UpdateUniformBuffer(w, eye, ubo)
      w2 == UpdateDescriptorSets(w1, eye, image_index)
      w3 == CleanTextureImageView(w2, eye, image_index)
      w4 == CreateImageView(w3, eye, eye_description.texture)
      w5 == [w4 EXCEPT !.r.image_views_[eye][image_index + 1] = Out(w4)]
  IN BindCommandBuffer(w5, eye, command_buffer, image_index, w5.r.indices_count_)

RenderDistortionMesh(w, eye_description, eye, command_buffer, image_index) ==
  LET ubo == << eye_description.left_u, eye_description.right_u,
                eye_description.top_v, eye_description.bottom_v >>
      w1 == UpdateUniformBuffer(w, eye, ubo)
      w2 == CleanTextureImageView(w1, eye, image_index)
      w3 == CreateImageView(w2, eye, eye_description.texture)
      w4 == [w3 EXCEPT !.r.image_views_[eye][image_index + 1] = Out(w3)]
      w5 == UpdateDescriptorSets(w4, eye, image_index)
  IN BindCommandBuffer(w5, eye, command_buffer, image_index, w5.r.indices_count_)

\* The check of the presentation-slot index (line 148).
SlotOutOfRange(image_index, swapchain_image_count) ==
  image_index >= swapchain_image_count

\* The test that triggers the pipeline rebuild (line 157).
RenderPassChanged(render_pass, current_render_pass) ==
  render_pass # current_render_pass

\* A rebuild that builds the pipelines before it updates the cached handle.
RebuildPipelines_staleHandle(w, render_pass) ==
  IF RenderPassChanged(render_pass, w.r.current_render_pass_)
    THEN [CreateGraphicsPipeline(CreateGraphicsPipeline(w, kLeft), kRight)
            EXCEPT !.r.current_render_pass_ = render_pass]
    ELSE w

\* Lines 157-161.
RebuildPipelines(w, render_pass) ==
  IF RenderPassChanged(render_pass, w.r.current_render_pass_)
    THEN CreateGraphicsPipeline(
           CreateGraphicsPipeline([w EXCEPT !.r.current_render_pass_ = render_pass], kLeft),
           kRight)
    ELSE w

\* Lines 154-167: the call once the slot index has been accepted.
RenderInRange(w, target, x, y, width, height, left_eye, right_eye) ==
  LET command_buffer == target.vk_command_buffer
      image_index == target.swapchain_image_index
      w1 == [w EXCEPT !.r.current_image_width_ = width,
                      !.r.current_image_height_ = height]
      w2 == RebuildPipelines(w1, target.vk_render_pass)
      w3 == UpdateViewportAndScissor(w2, kLeft, x, y)
      w4 == RenderDistortionMesh(w3, left_eye, kLeft, command_buffer, image_index)
      w5 == UpdateViewportAndScissor(w4, kRight, x, y)
  IN RenderDistortionMesh(w5, right_eye, kRight, command_buffer, image_index)

\* A RenderEyeToDisplay that caches the draw region before it checks the slot.
RenderEyeToDisplayBody_cacheFirst(w, target, x, y, width, height, left_eye, right_eye) ==
  IF SlotOutOfRange(target.swapchain_image_index, w.r.swapchain_image_count_)
    THEN [w EXCEPT !.r.current_image_width_ = width, !.r.current_image_height_ = height]
    ELSE RenderInRange(w, target, x, y, width, height, left_eye, right_eye)

\* target = [vk_command_buffer, vk_render_pass, swapchain_image_index]
RenderEyeToDisplayBody(w, target, x, y, width, height, left_eye, right_eye) ==
  IF SlotOutOfRange(target.swapchain_image_index, w.r.swapchain_image_count_)
    THEN w
    ELSE RenderInRange(w, target, x, y, width, height, left_eye, right_eye)

(***************************************************************************)
(* Teardown                                                                *)
(***************************************************************************)
\* vkDestroyDescriptorPool also frees the sets allocated from the pool.
DestroyDescriptorPool(w, eye) ==
  LET pool == w.r.descriptor_pool_[eye]
      w1 == VkDestroy(w, "vkDestroyDescriptorPool", eye, pool)
  IN [w1 EXCEPT !.d.destroyed =
        [h \in DOMAIN @ |->
           IF w.d.kind[h] = "descriptor_set" /\ w.d.info[h] = pool /\ IsCreated(w.d, pool)
             THEN @[h] + 1 ELSE @[h]]]

DestroyBufferAndMemory(w, eye, buffer, memory) ==
  VkDestroy(VkDestroy(w, "vkDestroyBuffer", eye, buffer), "vkFreeMemory", eye, memory)

\* The loop of lines 82-86, from index i on.
RECURSIVE DestroyImageViewsFrom(_, _)
DestroyImageViewsFrom(w, i) ==
  IF i >= w.r.swapchain_image_count_
    THEN w
    ELSE LET w1 == CleanTextureImageView(CleanTextureImageView(w, kLeft, i), kRight, i)
         IN DestroyImageViewsFrom(
              VkDestroy(w1, "vkDestroyImageView", NoEye, At(w1, w1.r.swapchain_views_, i)),
              i + 1)

\* A teardown in reverse creation order: pipelines and buffers, then the pools,
\* then the shared sampler and layouts.
DestroySharedAndPerEye_reversed(w) ==
  LET w1 == CleanPipeline(CleanPipeline(w, kRight), kLeft)
      w2 == DestroyBufferAndMemory(w1, kRight, w.r.index_buffers_[kRight],
                                   w.r.index_buffers_memory_[kRight])
      w3 == DestroyBufferAndMemory(w2, kLeft, w.r.index_buffers_[kLeft],
                                   w.r.index_buffers_memory_[kLeft])
      w4 == DestroyBufferAndMemory(w3, kRight, w.r.vertex_buffers_[kRight],
                                   w.r.vertex_buffers_memory_[kRight])
      w5 == DestroyBufferAndMemory(w4, kLeft, w.r.vertex_buffers_[kLeft],
                                   w.r.vertex_buffers_memory_[kLeft])
      w6 == DestroyBufferAndMemory(w5, kRight, w.r.uniform_buffers_[kRight],
                                   w.r.uniform_buffers_memory_[kRight])
      w7 == DestroyBufferAndMemory(w6, kLeft, w.r.uniform_buffers_[kLeft],
                                   w.r.uniform_buffers_memory_[kLeft])
      w8 == DestroyDescriptorPool(DestroyDescriptorPool(w7, kRight), kLeft)
      w9 == VkDestroy(w8, "vkDestroySampler", NoEye, w.r.texture_sampler_)
      w10 == VkDestroy(w9, "vkDestroyPipelineLayout", NoEye, w.r.pipeline_layout_)
  IN VkDestroy(w10, "vkDestroyDescriptorSetLayout", NoEye, w.r.descriptor_set_layout_)

\* Lines 88-112.
DestroySharedAndPerEye(w) ==
  LET w1 == VkDestroy(w, "vkDestroySampler", NoEye, w.r.texture_sampler_)
      w2 == VkDestroy(w1, "vkDestroyPipelineLayout", NoEye, w.r.pipeline_layout_)
      w3 == VkDestroy(w2, "vkDestroyDescriptorSetLayout", NoEye, w.r.descriptor_set_layout_)
      w4 == DestroyDescriptorPool(DestroyDescriptorPool(w3, kLeft), kRight)
      w5 == CleanPipeline(CleanPipeline(w4, kLeft), kRight)
      w6 == DestroyBufferAndMemory(w5, kLeft, w.r.index_buffers_[kLeft],
                                   w.r.index_buffers_memory_[kLeft])
      w7 == DestroyBufferAndMemory(w6, kRight, w.r.index_buffers_[kRight],
                                   w.r.index_buffers_memory_[kRight])
      w8 == DestroyBufferAndMemory(w7, kLeft, w.r.vertex_buffers_[kLeft],
                                   w.r.vertex_buffers_memory_[kLeft])
      w9 == DestroyBufferAndMemory(w8, kRight, w.r.vertex_buffers_[kRight],
                                   w.r.vertex_buffers_memory_[kRight])
      w10 == DestroyBufferAndMemory(w9, kLeft, w.r.uniform_buffers_[kLeft],
                                    w.r.uniform_buffers_memory_[kLeft])
  IN DestroyBufferAndMemory(w10, kRight, w.r.uniform_buffers_[kRight],
                            w.r.uniform_buffers_memory_[kRight])

\* A destructor that also destroys the swapchain it was given.
DestructorBody_destroysSwapchain(w) ==
  VkDestroy(DestroySharedAndPerEye(DestroyImageViewsFrom(w, 0)),
            "vkDestroySwapchainKHR", NoEye, w.r.swapchain_)

DestructorBody(w) == DestroySharedAndPerEye(DestroyImageViewsFrom(w, 0))

(***************************************************************************)
(* The state machine                                                       *)
(***************************************************************************)
\* phase: "start" (no renderer yet), "null" (the factory returned nullptr),
\* "broken" (constructed, but LoadVulkan failed), "live", "destroyed",
\* "crashed" (the process died in an operation).
NoObject == [none |-> TRUE]

\* The world an operation starts in.  oob: the value an indeterminate read
\* yields; failing: the calls that return a non-success status during the
\* operation; faults: whether a write through an indeterminate pointer faults.
FailingWorld(oob, failing, faults) ==
  [r |-> renderer, d |-> device, trace |-> <<>>, oob |-> oob,
   failing |-> failing, faults |-> faults, crashed |-> FALSE,
   memoryTypeBits |-> BufferMemoryTypeBits]

\* The world of an operation all of whose calls succeed.
World(oob) == FailingWorld(oob, {}, FALSE)

Becomes(w) == renderer' = w.r /\ device' = w.d /\ trace' = w.trace

Init ==
  /\ phase = "start"
  /\ renderer = NoObject
  /\ device = EmptyDevice
  /\ trace = <<>>
  /\ lastOp = [op |-> "none"]
  /\ nOps = 0

\* CardboardVulkanDistortionRenderer_create when the guard of line 805 holds.
FactoryRefuses(initialized, config_present) == ~initialized \/ ~config_present

CreateRefused ==
  /\ phase = "start"
  /\ \E initialized \in BOOLEAN, config_present \in BOOLEAN :
       /\ FactoryRefuses(initialized, config_present)
       /\ lastOp' = [op |-> "create", initialized |-> initialized,
                     config_present |-> config_present, returned |-> "null"]
  /\ phase' = "null"
  /\ UNCHANGED <<renderer, device, trace, nOps>>

\* CardboardVulkanDistortionRenderer_create otherwise: new VulkanDistortionRenderer.
CreateRenderer ==
  /\ phase = "start"
  /\ ~FactoryRefuses(TRUE, TRUE)
  /\ \E heap \in HeapImages, load_ok \in BOOLEAN, count \in SwapchainLengths :
       /\ Becomes(Constructor(heap, load_ok, count))
       /\ phase' = IF load_ok THEN "live" ELSE "broken"
       /\ lastOp' = [op |-> "create", initialized |-> TRUE, config_present |-> TRUE,
                     returned |-> "object", load_ok |-> load_ok, heap |-> heap]
  /\ UNCHANGED nOps

\* The calls of SetMesh and of RenderEyeToDisplay that return a VkResult.
SetMeshFallible ==
  {"vkCreateBuffer", "vkAllocateMemory", "vkBindBufferMemory", "vkMapMemory"}
RenderFallible ==
  {"vkCreateShaderModule", "vkCreateGraphicsPipelines", "vkMapMemory", "vkCreateImageView"}

\* Every call succeeds / at most one of the calls fails wherever it is issued.
NoFailure == {{}}
OneFailure == {{}} \cup {{c} : c \in SetMeshFallible \cup RenderFallible}

\* What an indeterminate value may be, and whether a write through an
\* indeterminate pointer faults, in an operation where `failing` fail.
Indeterminate(failing) ==
  IF failing = {} THEN {VK_NULL_HANDLE} ELSE {h.handle : h \in HeapImages}
Faults(failing) == IF failing = {} THEN {FALSE} ELSE BOOLEAN

\* The process is dead once an operation has faulted.
After(w) == IF w.crashed THEN "crashed" ELSE "live"

SetMesh(maxOps, failures) ==
  /\ phase = "live"
  /\ nOps < maxOps
  /\ \E mesh \in Meshes, eye \in Eyes, failing \in failures :
       /\ failing \subseteq SetMeshFallible
       /\ \E oob \in Indeterminate(failing), faults \in Faults(failing) :
            LET w == SetMeshBody(FailingWorld(oob, failing, faults), mesh, eye)
            IN Becomes(w) /\ phase' = After(w)
       /\ lastOp' = [op |-> "SetMesh", mesh |-> mesh, eye |-> eye, failing |-> failing]
  /\ nOps' = nOps + 1

RenderEyeToDisplay(frames, maxOps, failures) ==
  /\ phase = "live"
  /\ nOps < maxOps
  /\ \E image_index \in 0..renderer.swapchain_image_count_,
        render_pass \in RenderPasses, f \in frames, failing \in failures :
       LET target == [vk_command_buffer |-> CommandBuffer,
                      vk_render_pass |-> render_pass,
                      swapchain_image_index |-> image_index]
       IN /\ failing \subseteq RenderFallible
          /\ \E oob \in Indeterminate(failing), faults \in Faults(failing) :
               LET w == RenderEyeToDisplayBody(FailingWorld(oob, failing, faults), target,
                                               f.x, f.y, f.width, f.height,
                                               f.left_eye, f.right_eye)
               IN Becomes(w) /\ phase' = After(w)
          /\ lastOp' = [op |-> "RenderEyeToDisplay", target |-> target, frame |-> f,
                        failing |-> failing]
  /\ nOps' = nOps + 1

\* delete of the renderer.  In a broken object the members are what the memory
\* held, and reads past the end of the empty vectors yield oob.
Destroy ==
  /\ phase \in {"live", "broken"}
  /\ \E oob \in {h.handle : h \in HeapImages} :
       /\ phase = "live" => oob = VK_NULL_HANDLE
       /\ Becomes(DestructorBody(World(oob)))
  /\ phase' = "destroyed"
  /\ lastOp' = [op |-> "destroy"]
  /\ UNCHANGED nOps

Next ==
  \/ CreateRefused
  \/ CreateRenderer
  \/ SetMesh(MaxOps, NoFailure)
  \/ RenderEyeToDisplay(Frames, MaxOps, NoFailure)
  \/ Destroy

Spec == Init /\ [][Next]_vars

\* The same machine with every draw region of RegionFrames.
NextRegions ==
  \/ CreateRefused
  \/ CreateRenderer
  \/ SetMesh(MaxRegionOps, NoFailure)
  \/ RenderEyeToDisplay(RegionFrames, MaxRegionOps, NoFailure)
  \/ Destroy

SpecRegions == Init /\ [][NextRegions]_vars

\* The same machine where a call of SetMesh or RenderEyeToDisplay may fail.
NextFailures ==
  \/ CreateRefused
  \/ CreateRenderer
  \/ SetMesh(MaxFailureOps, OneFailure)
  \/ RenderEyeToDisplay(Frames, MaxFailureOps, OneFailure)
  \/ Destroy

SpecFailures == Init /\ [][NextFailures]_vars

\* The allocator alone: CreateBuffer applied once on a device whose buffers
\* report memoryTypeBits = typeFilter, for requested flags `properties`.
MemoryPropertyFlags == {"DEVICE_LOCAL", HOST_VISIBLE, HOST_COHERENT, "HOST_CACHED"}

InitMemory ==
  /\ phase = "allocator"
  /\ renderer = NoObject
  /\ device = EmptyDevice
  /\ trace = <<>>
  /\ nOps = 0
  /\ \E typeFilter \in 0..MaxTypeFilter, properties \in SUBSET MemoryPropertyFlags :
       lastOp = [op |-> "inputs", typeFilter |-> typeFilter, properties |-> properties]

AllocateBuffer ==
  /\ phase = "allocator"
  /\ lastOp.op = "inputs"
  /\ LET w0 == [World(VK_NULL_HANDLE) EXCEPT !.memoryTypeBits = lastOp.typeFilter]
     IN Becomes(CreateBuffer(w0, kLeft, SizeofVertex, "vertex_buffer", lastOp.properties))
  /\ lastOp' = [op |-> "CreateBuffer", typeFilter |-> lastOp.typeFilter,
                properties |-> lastOp.properties,
                found |-> FindMemoryType(lastOp.typeFilter, lastOp.properties)]
  /\ UNCHANGED <<phase, nOps>>

NextMemory == AllocateBuffer

SpecMemory == InitMemory /\ [][NextMemory]_vars

(***************************************************************************)
(* Vocabulary of the properties                                            *)
(***************************************************************************)
Handles == 1..Len(device.kind)

IsRender(op) == op.op = "RenderEyeToDisplay"

\* op is a RenderEyeToDisplay of a renderer with `count` presentation images
\* whose slot index is below count.
IsInRangeRender(op, count) ==
  IsRender(op) /\ op.target.swapchain_image_index < count

IsOutOfRangeRender(op, count) ==
  IsRender(op) /\ op.target.swapchain_image_index >= count

\* The positions of the calls named `name` in call sequence t.
Positions(t, name) == {i \in 1..Len(t) : t[i].call = name}

IsCommand(c) ==
  c.call \in {"vkCmdBindPipeline", "vkCmdSetViewport", "vkCmdSetScissor",
              "vkCmdBindVertexBuffers", "vkCmdBindIndexBuffer",
              "vkCmdBindDescriptorSets", "vkCmdDrawIndexed"}

\* The commands the running operation recorded into the command buffer.
Commands(t) == SelectSeq(t, IsCommand)

(***************************************************************************)
(* C1                                                                      *)
(***************************************************************************)
\* C1: a RenderEyeToDisplay whose slot index is >= the presentation-image count
\* issues no call at all (so records no command) and leaves every member of the
\* renderer and every object on the device as it was.
C1_OutOfRangeIsNoOp ==
  [][ (phase = "live" /\ IsOutOfRangeRender(lastOp', renderer.swapchain_image_count_))
        => (renderer' = renderer /\ device' = device /\ trace' = <<>>) ]_vars

\* An out-of-range call on a renderer that has already drawn a frame.
C1_Witness ==
  /\ phase = "live"
  /\ IsOutOfRangeRender(lastOp, renderer.swapchain_image_count_)
  /\ renderer.current_image_width_ = 1000
  /\ \E e \in Eyes : renderer.graphics_pipeline_[e] # VK_NULL_HANDLE

(***************************************************************************)
(* C2                                                                      *)
(***************************************************************************)
MeshBufferKinds == {"vertex_buffer", "index_buffer"}

ReferencedMeshBuffers ==
  {renderer.vertex_buffers_[e] : e \in Eyes} \cup {renderer.index_buffers_[e] : e \in Eyes}

ReferencedMemory ==
  {renderer.vertex_buffers_memory_[e] : e \in Eyes}
    \cup {renderer.index_buffers_memory_[e] : e \in Eyes}
    \cup {renderer.uniform_buffers_memory_[e] : e \in Eyes}

\* C2: between operations every live vertex or index buffer, and every live
\* memory allocation, is one a member of the renderer refers to: a SetMesh on
\* an eye that has a mesh leaves no buffer or memory of the old mesh allocated.
C2_NoOrphanedMeshBuffer ==
  phase = "live" =>
    \A h \in Handles :
      IsLive(device, h) =>
        /\ device.kind[h] \in MeshBufferKinds => h \in ReferencedMeshBuffers
        /\ device.kind[h] = "memory" => h \in ReferencedMemory

(***************************************************************************)
(* C3                                                                      *)
(***************************************************************************)
\* C3: after an in-range RenderEyeToDisplay both eyes have a live pipeline, and
\* every vkCmdBindPipeline the call recorded binds a live pipeline.
C3_PipelinesBuiltAfterRender ==
  (phase = "live" /\ IsInRangeRender(lastOp, renderer.swapchain_image_count_)) =>
    /\ \A e \in Eyes :
         /\ renderer.graphics_pipeline_[e] # VK_NULL_HANDLE
         /\ IsLive(device, renderer.graphics_pipeline_[e])
    /\ \A i \in Positions(trace, "vkCmdBindPipeline") :
         trace[i].h # VK_NULL_HANDLE /\ IsLive(device, trace[i].h)

(***************************************************************************)
(* C4                                                                      *)
(***************************************************************************)
Pipelines(d) == {h \in 1..Len(d.kind) : d.kind[h] = "pipeline"}

\* Whether render pass rp differs from the one the pipelines on device d were
\* last built against (it does when none was ever built).
DiffersFromLastBuilt(d, rp) ==
  \/ Pipelines(d) = {}
  \/ LET last == CHOOSE h \in Pipelines(d) : \A g \in Pipelines(d) : g <= h
     IN d.info[last] # rp

BuildsOf(t, e) == {i \in Positions(t, "vkCreateGraphicsPipelines") : t[i].eye = e}

\* C4: an in-range call builds pipelines exactly when its render pass differs
\* from the one the pipelines were last built against, and then once per eye;
\* the second of two consecutive in-range calls with the same render pass
\* builds none.
C4_BuildIffRenderPassDiffers ==
  [][ (phase = "live" /\ IsInRangeRender(lastOp', renderer.swapchain_image_count_)) =>
        /\ (Positions(trace', "vkCreateGraphicsPipelines") # {})
             <=> DiffersFromLastBuilt(device, lastOp'.target.vk_render_pass)
        /\ \A e \in Eyes : Cardinality(BuildsOf(trace', e)) <= 1
        /\ (IsInRangeRender(lastOp, renderer.swapchain_image_count_)
              /\ lastOp.target.vk_render_pass = lastOp'.target.vk_render_pass)
             => Positions(trace', "vkCreateGraphicsPipelines") = {} ]_vars

(***************************************************************************)
(* C5                                                                      *)
(***************************************************************************)
\* C5: an in-range call whose render pass differs from current_render_pass_
\* creates one pipeline per eye against the call's render pass before it
\* records its first command, caches the call's render pass, and every
\* vkCmdBindPipeline of the call binds a live pipeline built against it; after
\* the call both eyes' pipelines are built against that render pass.
C5_RebuildBeforeDraw ==
  [][ ( /\ phase = "live"
        /\ IsInRangeRender(lastOp', renderer.swapchain_image_count_)
        /\ lastOp'.target.vk_render_pass # renderer.current_render_pass_ ) =>
      LET rp == lastOp'.target.vk_render_pass
          t == trace'
          d == device'
          firstCommand == CHOOSE i \in 1..Len(t) :
                            IsCommand(t[i]) /\ \A j \in 1..(i - 1) : ~IsCommand(t[j])
      IN /\ renderer'.current_render_pass_ = rp
         /\ \A e \in Eyes :
              /\ Cardinality(BuildsOf(t, e)) = 1
              /\ \A i \in BuildsOf(t, e) :
                   /\ i < firstCommand
                   /\ t[i].arg = rp
                   /\ renderer'.graphics_pipeline_[e] = t[i].h
              /\ IsLive(d, renderer'.graphics_pipeline_[e])
              /\ d.kind[renderer'.graphics_pipeline_[e]] = "pipeline"
              /\ d.info[renderer'.graphics_pipeline_[e]] = rp
         /\ \A i \in Positions(t, "vkCmdBindPipeline") :
              /\ t[i].h = renderer'.graphics_pipeline_[t[i].eye]
              /\ IsLive(d, t[i].h)
              /\ d.info[t[i].h] = rp
         /\ Cardinality(Positions(t, "vkCmdBindPipeline")) = 2 ]_vars

\* A frame whose render pass differs from the previous frame's: the pipelines
\* of the previous frame were destroyed and rebuilt.
C5_Witness ==
  /\ phase = "live"
  /\ IsInRangeRender(lastOp, renderer.swapchain_image_count_)
  /\ Cardinality(Positions(trace, "vkDestroyPipeline")) = 2
  /\ Cardinality(Positions(trace, "vkCreateGraphicsPipelines")) = 2
  /\ renderer.current_render_pass_ = lastOp.target.vk_render_pass

(***************************************************************************)
(* C6                                                                      *)
(***************************************************************************)
OwnedKinds ==
  {"vertex_buffer", "index_buffer", "uniform_buffer", "memory", "descriptor_pool",
   "pipeline", "pipeline_layout", "descriptor_set_layout", "sampler"}

\* C6: no buffer, memory, descriptor pool, pipeline, pipeline layout,
\* descriptor-set layout or sampler the renderer created is ever destroyed
\* twice, and when destruction has ended each has been destroyed exactly once.
C6_EverythingDestroyedOnce ==
  \A h \in Handles :
    device.kind[h] \in OwnedKinds =>
      /\ device.destroyed[h] <= 1
      /\ phase = "destroyed" => device.destroyed[h] = 1

(***************************************************************************)
(* C7                                                                      *)
(***************************************************************************)
ImageViews(d) == {h \in 1..Len(d.kind) : d.kind[h] = "image_view"}

Slots == 1..renderer.swapchain_image_count_

\* The cache entries that hold a view.
CachedViews ==
  {<<e, s>> \in Eyes \X Slots : renderer.image_views_[e][s] # VK_NULL_HANDLE}

C7_State ==
  /\ \A h \in ImageViews(device) : device.destroyed[h] <= 1
  /\ phase = "destroyed" => \A h \in ImageViews(device) : device.destroyed[h] = 1
  /\ phase = "live" =>
       /\ \A p \in CachedViews, q \in CachedViews :
            renderer.image_views_[p[1]][p[2]] = renderer.image_views_[q[1]][q[2]] => p = q
       /\ {h \in ImageViews(device) : IsLive(device, h)}
            = {renderer.image_views_[p[1]][p[2]] : p \in CachedViews}
                \cup {renderer.swapchain_views_[s] : s \in Slots}
       /\ \A p \in CachedViews : \A s \in Slots :
            renderer.image_views_[p[1]][p[2]] # renderer.swapchain_views_[s]

C7_Step ==
  /\ \A h \in ImageViews(device) :
       device'.destroyed[h] # device.destroyed[h] =>
         \/ lastOp'.op = "destroy"
         \/ /\ IsInRangeRender(lastOp', renderer.swapchain_image_count_)
            /\ \E e \in Eyes :
                 renderer.image_views_[e][lastOp'.target.swapchain_image_index + 1] = h
  /\ Cardinality(ImageViews(device')) - Cardinality(ImageViews(device)) =
       IF phase = "live" /\ IsInRangeRender(lastOp', renderer.swapchain_image_count_)
         THEN 2
         ELSE IF phase' = "live" /\ lastOp'.op = "create"
                THEN renderer'.swapchain_image_count_
                ELSE 0

\* C7: the renderer creates one image view per presentation image at
\* construction and one per eye per in-range RenderEyeToDisplay; a view is
\* destroyed only by destruction or by an in-range RenderEyeToDisplay on the
\* eye and slot that caches it, never twice, and is destroyed once destruction
\* has ended; between operations the live views are exactly the presentation
\* views and the distinct non-null cache entries, one at most per (eye, slot).
C7_ImageViewsDestroyedOnce == []C7_State /\ [][C7_Step]_vars

\* A destroyed renderer one of whose eye views was destroyed by a later frame
\* on the same slot rather than by the destructor.
C7_Witness ==
  /\ phase = "destroyed"
  /\ \E h \in ImageViews(device) :
       /\ device.info[h] = 3001
       /\ \A i \in Positions(trace, "vkDestroyImageView") : trace[i].h # h
  /\ \E i \in Positions(trace, "vkDestroyImageView") : trace[i].eye = kRight

(***************************************************************************)
(* C8                                                                      *)
(***************************************************************************)
Before(t, earlier, later) == \A i \in earlier, j \in later : i < j

UniformBufferDestroys(t) ==
  {i \in Positions(t, "vkDestroyBuffer") :
     IsCreated(device, t[i].h) /\ device.kind[t[i].h] = "uniform_buffer"}

TeardownRank(c) ==
  CASE c.call = "vkDestroyImageView" -> 1
    [] c.call = "vkDestroySampler" -> 2
    [] c.call = "vkDestroyPipelineLayout" -> 3
    [] c.call = "vkDestroyDescriptorSetLayout" -> 4
    [] c.call = "vkDestroyDescriptorPool" -> 5
    [] c.call = "vkDestroyPipeline" -> 6
    [] OTHER -> 7

IsBufferDestroy(c) == c.call = "vkDestroyBuffer"

ScissorCommands(t, e) ==
  {i \in Positions(t, "vkCmdSetScissor") : t[i].eye = e}

\* The scissor of eye e, in the renderer and in the one vkCmdSetScissor the
\* call recorded for the eye, is sc.
ScissorIs(e, sc) ==
  /\ renderer.scissor_[e] = sc
  /\ Cardinality(ScissorCommands(trace, e)) = 1
  /\ \A i \in ScissorCommands(trace, e) : trace[i].arg = sc

NonNegativeRegionDrawn ==
  /\ phase = "live"
  /\ IsInRangeRender(lastOp, renderer.swapchain_image_count_)
  /\ lastOp.frame.width >= 0
  /\ lastOp.frame.height >= 0

\* C9 as claimed: for a region with non-negative width and height the left
\* scissor is offset (x, y), extent (width/2, height) and the right scissor is
\* offset (x + width/2, y), extent (width/2, height).
C9_ScissorSplit ==
  NonNegativeRegionDrawn =>
    LET f == lastOp.frame
        half == f.width \div 2
        right == renderer.scissor_[kRight]
    IN /\ ScissorIs(kLeft, [offset |-> [x |-> f.x, y |-> f.y],
                            extent |-> [width |-> half, height |-> f.height]])
       /\ ScissorIs(kRight, right)
       /\ right.extent = [width |-> half, height |-> f.height]
       /\ right.offset.y = f.y
       /\ right.offset.x >= f.x
       /\ right.offset.x - f.x = half

\* C9 as amended: the same, the right offset being x + width/2 when that is at
\* most INT_MAX and x + width/2 - 2^32 otherwise; for (0, 0, 1000, 500) the
\* scissors are {(0,0),(500,500)} and {(500,0),(500,500)}.
C9_ScissorSplitInt32 ==
  NonNegativeRegionDrawn =>
    LET f == lastOp.frame
        half == f.width \div 2
        rightX == IF f.x <= INT_MAX - half
                    THEN f.x + half
                    ELSE ((f.x - INT_MAX) - 1) + ((half - INT_MAX) - 1)
    IN /\ ScissorIs(kLeft, [offset |-> [x |-> f.x, y |-> f.y],
                            extent |-> [width |-> half, height |-> f.height]])
       /\ ScissorIs(kRight, [offset |-> [x |-> rightX, y |-> f.y],
                             extent |-> [width |-> half, height |-> f.height]])
       /\ (f.x = 0 /\ f.y = 0 /\ f.width = 1000 /\ f.height = 500) =>
            /\ renderer.scissor_[kLeft] = [offset |-> [x |-> 0, y |-> 0],
                                           extent |-> [width |-> 500, height |-> 500]]
            /\ renderer.scissor_[kRight] = [offset |-> [x |-> 500, y |-> 0],
                                            extent |-> [width |-> 500, height |-> 500]]

\* The region (0, 0, 1000, 500) drawn.
C9_Witness ==
  /\ NonNegativeRegionDrawn
  /\ lastOp.frame.width = 1000
  /\ renderer.scissor_[kRight].offset.x = 500

(***************************************************************************)
(* C10                                                                     *)
(***************************************************************************)
\* C10: after SetMesh(mesh, eye) with N vertices and M indices the eye's
\* vertex buffer is a live buffer of N * 16 bytes whose memory holds, for each
\* i < N, positions[2i], positions[2i+1], uvs[2i], uvs[2i+1] in that order, and
\* the eye's index buffer is a live buffer of M * 2 bytes whose memory holds
\* indices[0..M-1] in order, each reduced to 16 bits.
C10_MeshBuffers ==
  (phase = "live" /\ lastOp.op = "SetMesh") =>
    LET mesh == lastOp.mesh
        e == lastOp.eye
        N == mesh.n_vertices
        M == mesh.n_indices
        vb == renderer.vertex_buffers_[e]
        ib == renderer.index_buffers_[e]
        vdata == device.data[renderer.vertex_buffers_memory_[e]]
        idata == device.data[renderer.index_buffers_memory_[e]]
    IN /\ IsLive(device, vb) /\ device.kind[vb] = "vertex_buffer"
       /\ device.info[vb] = N * 16
       /\ Len(vdata) * 4 = N * 16
       /\ \A i \in 0..(N - 1) :
            /\ vdata[4 * i + 1] = mesh.vertices[2 * i + 1]
            /\ vdata[4 * i + 2] = mesh.vertices[2 * i + 2]
            /\ vdata[4 * i + 3] = mesh.uvs[2 * i + 1]
            /\ vdata[4 * i + 4] = mesh.uvs[2 * i + 2]
       /\ IsLive(device, ib) /\ device.kind[ib] = "index_buffer"
       /\ device.info[ib] = M * 2
       /\ Len(idata) = M
       /\ \A i \in 1..M : idata[i] = mesh.indices[i] % 65536 /\ idata[i] \in 0..65535
       /\ IsLive(device, renderer.vertex_buffers_memory_[e])
       /\ IsLive(device, renderer.index_buffers_memory_[e])

\* A mesh with an index above 65535 set on the right eye.
C10_Witness ==
  /\ phase = "live"
  /\ lastOp.op = "SetMesh"
  /\ lastOp.eye = kRight
  /\ lastOp.mesh.indices[2] = 65537
  /\ device.data[renderer.index_buffers_memory_[kRight]] = <<0, 1, 2>>


(***************************************************************************)
(* C11                                                                     *)
(***************************************************************************)
\* The vkUpdateDescriptorSets calls of call sequence t issued for eye e.
DescriptorUpdates(t, e) == {i \in Positions(t, "vkUpdateDescriptorSets") : t[i].eye = e}

\* C11: an in-range RenderEyeToDisplay issues exactly one descriptor-set
\* update per eye; it writes the eye's set of the supplied slot, binding 0 with
\* the eye's cached image view of that slot (through the shared sampler) and
\* binding 1 with the eye's uniform buffer; what the sets of the other slots
\* of both eyes point at is as it was before the call.
C11_OneDescriptorUpdatePerEye ==
  [][ (phase = "live" /\ IsInRangeRender(lastOp', renderer.swapchain_image_count_))
        => LET slot == lastOp'.target.swapchain_image_index + 1
           IN \A e \in Eyes :
                /\ Cardinality(DescriptorUpdates(trace', e)) = 1
                /\ \A i \in DescriptorUpdates(trace', e) :
                     /\ trace'[i].h = renderer.descriptor_sets_[e][slot]
                     /\ trace'[i].arg.imageView = renderer'.image_views_[e][slot]
                     /\ trace'[i].arg.imageView # VK_NULL_HANDLE
                     /\ trace'[i].arg.sampler = renderer.texture_sampler_
                     /\ trace'[i].arg.buffer = renderer.uniform_buffers_[e]
                     /\ device'.data[trace'[i].h] = trace'[i].arg
                /\ renderer'.descriptor_sets_[e] = renderer.descriptor_sets_[e]
                /\ \A s \in DOMAIN renderer.descriptor_sets_[e] :
                     s # slot => device'.data[renderer.descriptor_sets_[e][s]]
                                   = device.data[renderer.descriptor_sets_[e][s]] ]_vars

\* A frame on the second slot after a frame on the first: the sets of the first
\* slot still point at the views of the earlier frame.
C11_Witness ==
  /\ phase = "live"
  /\ IsInRangeRender(lastOp, renderer.swapchain_image_count_)
  /\ lastOp.target.swapchain_image_index = 1
  /\ \A e \in Eyes :
       /\ device.data[renderer.descriptor_sets_[e][1]] # <<>>
       /\ device.data[renderer.descriptor_sets_[e][1]].imageView = renderer.image_views_[e][1]
       /\ device.data[renderer.descriptor_sets_[e][2]].imageView = renderer.image_views_[e][2]
       /\ renderer.image_views_[e][1] # renderer.image_views_[e][2]


(***************************************************************************)
(* C12                                                                     *)
(***************************************************************************)
\* C12: the factory returns a renderer only when the Vulkan loader
\* initialized and a configuration was supplied; when the loader cannot
\* initialize, or the configuration is absent, it returns null.
C12_FactoryNullOnFailure ==
  lastOp.op = "create" =>
    /\ ~lastOp.config_present => lastOp.returned = "null"
    /\ lastOp.returned = "object" => (lastOp.config_present /\ lastOp.load_ok)


(***************************************************************************)
(* C13                                                                     *)
(***************************************************************************)
\* What the memory of eye e's uniform buffer holds.
UniformContent(r, d, e) == d.data[r.uniform_buffers_memory_[e]]

RemapRect(description) ==
  << description.left_u, description.right_u, description.top_v, description.bottom_v >>

C13_State ==
  (phase = "live" /\ IsInRangeRender(lastOp, renderer.swapchain_image_count_))
    => /\ UniformContent(renderer, device, kLeft) = RemapRect(lastOp.frame.left_eye)
       /\ UniformContent(renderer, device, kRight) = RemapRect(lastOp.frame.right_eye)

C13_Step ==
  (phase = "live" /\ phase' = "live"
     /\ ~IsInRangeRender(lastOp', renderer.swapchain_image_count_))
    => \A e \in Eyes :
         /\ renderer'.uniform_buffers_memory_[e] = renderer.uniform_buffers_memory_[e]
         /\ UniformContent(renderer', device', e) = UniformContent(renderer, device, e)

\* C13: after an in-range RenderEyeToDisplay each eye's uniform buffer holds
\* exactly (left_u, right_u, top_v, bottom_v) of that eye's description, the
\* write for one eye leaving the other eye's buffer alone, and a SetMesh or an
\* out-of-range RenderEyeToDisplay leaves both contents as they are.
C13_UniformBufferContent == []C13_State /\ [][C13_Step]_vars

\* The rectangles of a frame still in the uniform buffers after a later SetMesh.
C13_Witness ==
  /\ phase = "live"
  /\ lastOp.op = "SetMesh"
  /\ UniformContent(renderer, device, kLeft) = <<6, 7, 8, 9>>
  /\ UniformContent(renderer, device, kRight) = <<0, 1, 1, 0>>


(***************************************************************************)
(* C14                                                                     *)
(***************************************************************************)
\* The handles the caller lends to the renderer.
BorrowedHandles ==
  RenderPasses \cup {CommandBuffer}
    \cup {Config.physical_device, Config.logical_device, Config.vk_swapchain}
    \cup UNION {{SwapchainImage(i) : i \in 0..(n - 1)} : n \in SwapchainLengths}
    \cup UNION {{f.left_eye.texture, f.right_eye.texture} : f \in Frames \cup RegionFrames}

\* The calls that destroy or free the handle they are given.
IsDestruction(c) ==
  c.call \in {"vkDestroyImageView", "vkDestroySampler", "vkDestroyPipelineLayout",
              "vkDestroyDescriptorSetLayout", "vkDestroyDescriptorPool",
              "vkDestroyPipeline", "vkDestroyShaderModule", "vkDestroyBuffer",
              "vkFreeMemory", "vkDestroyImage", "vkDestroyRenderPass",
              "vkDestroySwapchainKHR", "vkDestroyDevice", "vkFreeCommandBuffers",
              "vkFreeDescriptorSets", "vkDestroyInstance"}

\* C14: no operation (construction, SetMesh, RenderEyeToDisplay, destruction)
\* issues a destroying call on a handle it borrowed: a render pass, the
\* command buffer, the physical or logical device, the swapchain, a
\* presentation image or an eye texture; no borrowed handle is an object the
\* renderer created.
C14_BorrowedNeverDestroyed ==
  /\ \A i \in 1..Len(trace) :
       IsDestruction(trace[i]) => trace[i].h \notin BorrowedHandles
  /\ Handles \cap BorrowedHandles = {}

\* The destruction of a renderer that holds views over presentation images and
\* over eye textures of a frame: the views are destroyed.
C14_Witness ==
  /\ phase = "destroyed"
  /\ \E i \in Positions(trace, "vkDestroyImageView") :
       /\ trace[i].eye = kLeft
       /\ IsCreated(device, trace[i].h)
       /\ device.info[trace[i].h] \in {3001, 3003}
  /\ \E i \in Positions(trace, "vkDestroyImageView") :
       /\ trace[i].eye = NoEye
       /\ IsCreated(device, trace[i].h)
       /\ device.info[trace[i].h] = SwapchainImage(0)


(***************************************************************************)
(* C15                                                                     *)
(***************************************************************************)
EyeDescription(frame, e) == IF e = kLeft THEN frame.left_eye ELSE frame.right_eye

\* C15: in an in-range RenderEyeToDisplay the descriptor-set update of an eye
\* comes after the refresh of the eye's view of the slot: the view it writes is
\* non-null, was created earlier in this call from the texture supplied for the
\* eye, is the cache entry of (eye, slot), and has not been destroyed; every
\* destruction of a view of the eye in the call precedes the update.
C15_UpdateAfterViewRefresh ==
  (phase = "live" /\ IsInRangeRender(lastOp, renderer.swapchain_image_count_))
    => \A e \in Eyes : \A i \in DescriptorUpdates(trace, e) :
         LET view == trace[i].arg.imageView
         IN /\ view # VK_NULL_HANDLE
            /\ view = renderer.image_views_[e][lastOp.target.swapchain_image_index + 1]
            /\ IsLive(device, view)
            /\ \E j \in Positions(trace, "vkCreateImageView") :
                 /\ j < i
                 /\ trace[j].eye = e
                 /\ trace[j].h = view
                 /\ trace[j].arg = EyeDescription(lastOp.frame, e).texture
            /\ \A k \in Positions(trace, "vkDestroyImageView") :
                 trace[k].eye = e => (k < i /\ trace[k].h # view)

\* A frame on a slot whose cache entries held the views of an earlier frame:
\* those are destroyed and replaced before the update.
C15_Witness ==
  /\ phase = "live"
  /\ IsInRangeRender(lastOp, renderer.swapchain_image_count_)
  /\ \A e \in Eyes : \E k \in Positions(trace, "vkDestroyImageView") :
       /\ trace[k].eye = e
       /\ ~IsLive(device, trace[k].h)
       /\ \E i \in DescriptorUpdates(trace, e) : k < i


(***************************************************************************)
(* C16                                                                     *)
(***************************************************************************)
\* The calls of sequence t by name and eye.
CallNames(t) == [i \in 1..Len(t) |-> <<t[i].call, t[i].eye>>]

\* The calls the SetMesh or RenderEyeToDisplay `op` issues from the current
\* state when every call succeeds.
AllSuccessCalls(op) ==
  IF op.op = "SetMesh"
    THEN CallNames(SetMeshBody(World(VK_NULL_HANDLE), op.mesh, op.eye).trace)
    ELSE CallNames(RenderEyeToDisplayBody(World(VK_NULL_HANDLE), op.target,
                                          op.frame.x, op.frame.y, op.frame.width,
                                          op.frame.height, op.frame.left_eye,
                                          op.frame.right_eye).trace)

\* C16: a SetMesh or an in-range RenderEyeToDisplay in which a call returns a
\* non-success status issues the same sequence of calls as it does when every
\* call succeeds, and the RenderEyeToDisplay records the draw of both eyes.
C16_FailureKeepsCallSequence ==
  [][ (phase = "live"
         /\ (lastOp'.op = "SetMesh"
               \/ IsInRangeRender(lastOp', renderer.swapchain_image_count_)))
        => /\ CallNames(trace') = AllSuccessCalls(lastOp')
           /\ IsRender(lastOp') =>
                \A e \in Eyes : \E i \in Positions(trace', "vkCmdDrawIndexed") :
                  trace'[i].eye = e ]_vars


(***************************************************************************)
(* C17                                                                     *)
(***************************************************************************)
\* The calls of the pipeline rebuild; all the others of a RenderEyeToDisplay
\* are steps of the frame of one eye.
IsPipelineBuild(c) ==
  c.call \in {"vkDestroyPipeline", "vkCreateShaderModule", "vkCreateGraphicsPipelines",
              "vkDestroyShaderModule"}

FrameSteps(t, e) == {i \in 1..Len(t) : ~IsPipelineBuild(t[i]) /\ t[i].eye = e}

IsLeftStep(c) == ~IsPipelineBuild(c) /\ c.eye = kLeft
IsRightStep(c) == ~IsPipelineBuild(c) /\ c.eye = kRight

\* The names of eye e's frame steps in call sequence t, in order.
StepNames(t, e) ==
  LET steps == IF e = kLeft THEN SelectSeq(t, IsLeftStep) ELSE SelectSeq(t, IsRightStep)
  IN [i \in 1..Len(steps) |-> steps[i].call]

UniformWrite == <<"vkMapMemory", "vkUnmapMemory">>

ViewRefresh(hadView) ==
  (IF hadView THEN <<"vkDestroyImageView">> ELSE <<>>)
    \o <<"vkCreateImageView", "vkUpdateDescriptorSets">>

Recording ==
  <<"vkCmdBindPipeline", "vkCmdSetViewport", "vkCmdSetScissor", "vkCmdBindVertexBuffers",
    "vkCmdBindIndexBuffer", "vkCmdBindDescriptorSets", "vkCmdDrawIndexed">>

\* Left before right, every draw with instance count 1.
LeftThenRightOneInstance(t) ==
  /\ \A i \in FrameSteps(t, kLeft) : \A j \in FrameSteps(t, kRight) : i < j
  /\ \A i \in Positions(t, "vkCmdDrawIndexed") : t[i].arg.instanceCount = 1

IsCreation(c) ==
  c.call \in {"vkCreateDescriptorSetLayout", "vkCreatePipelineLayout", "vkCreateSampler",
              "vkCreateImageView", "vkCreateDescriptorPool", "vkCreateBuffer",
              "vkAllocateMemory", "vkAllocateDescriptorSets", "vkCreateGraphicsPipelines",
              "vkCreateShaderModule"}

\* The creating calls of sequence t, by name and eye.
Creations(t) == CallNames(SelectSeq(t, IsCreation))

PerEyeCreations(e) ==
  << <<"vkCreateDescriptorPool", e>>, <<"vkCreateBuffer", e>>, <<"vkAllocateMemory", e>>,
     <<"vkAllocateDescriptorSets", e>> >>

\* C18: a successful construction creates, in this order, the descriptor-set
\* layout, the pipeline layout, the sampler, one view per presentation image
\* in slot order, then for the left eye and after it for the right eye the
\* descriptor pool, the uniform buffer and the descriptor sets; when it ends
\* every image-view cache entry of both eyes is null, no pipeline exists and
\* no vertex or index buffer exists.
C18_ConstructionOrder ==
  (phase = "live" /\ lastOp.op = "create") =>
    LET n == renderer.swapchain_image_count_
    IN /\ Creations(trace)
            = << <<"vkCreateDescriptorSetLayout", NoEye>>,
                 <<"vkCreatePipelineLayout", NoEye>>,
                 <<"vkCreateSampler", NoEye>> >>
              \o [i \in 1..n |-> <<"vkCreateImageView", NoEye>>]
              \o PerEyeCreations(kLeft) \o PerEyeCreations(kRight)
       /\ \A i \in 1..n :
            /\ IsLive(device, renderer.swapchain_views_[i])
            /\ device.info[renderer.swapchain_views_[i]] = SwapchainImage(i - 1)
            /\ i < n => renderer.swapchain_views_[i] < renderer.swapchain_views_[i + 1]
       /\ \A e \in Eyes :
            /\ device.kind[renderer.uniform_buffers_[e]] = "uniform_buffer"
            /\ Len(renderer.descriptor_sets_[e]) = n
            /\ renderer.image_views_[e] = [i \in 1..n |-> VK_NULL_HANDLE]
            /\ renderer.graphics_pipeline_[e] = VK_NULL_HANDLE
       /\ \A h \in Handles :
            device.kind[h] \notin {"pipeline", "vertex_buffer", "index_buffer"}

\* A renderer constructed in memory that held the members of an earlier one.
C18_Witness ==
  /\ phase = "live"
  /\ lastOp.op = "create"
  /\ lastOp.heap.handle # VK_NULL_HANDLE
  /\ renderer.swapchain_image_count_ = 2
  /\ Len(Creations(trace)) = 13


(***************************************************************************)
(* C19                                                                     *)
(***************************************************************************)
\* Both draws of an in-range RenderEyeToDisplay take the shared count.
C19_State ==
  (phase = "live" /\ IsInRangeRender(lastOp, renderer.swapchain_image_count_))
    => /\ \A e \in Eyes : \E i \in Positions(trace, "vkCmdDrawIndexed") : trace[i].eye = e
       /\ \A i \in Positions(trace, "vkCmdDrawIndexed") :
            trace[i].arg.indexCount = renderer.indices_count_

\* The shared count is the n_indices of the SetMesh just made, for either
\* eye, and no other operation changes it.
C19_Step ==
  (phase = "live" /\ phase' = "live")
    => IF lastOp'.op = "SetMesh"
         THEN renderer'.indices_count_ = lastOp'.mesh.n_indices
         ELSE renderer'.indices_count_ = renderer.indices_count_

\* C19: there is one index count for both eyes: once SetMesh has been called,
\* both draws of every later in-range RenderEyeToDisplay are issued with the
\* n_indices of the most recent SetMesh, whichever eye it was for.
C19_SharedIndexCount == []C19_State /\ [][C19_Step]_vars

\* SetMesh of the quad on the left eye, of the triangle on the right eye,
\* then a frame: the left eye, whose index buffer holds 6 indices, draws 3.
C19_Witness ==
  /\ phase = "live"
  /\ IsInRangeRender(lastOp, renderer.swapchain_image_count_)
  /\ IsLive(device, renderer.index_buffers_[kLeft])
  /\ device.info[renderer.index_buffers_[kLeft]] = 6 * SizeofIndex
  /\ \A i \in Positions(trace, "vkCmdDrawIndexed") : trace[i].arg.indexCount = 3


(***************************************************************************)
(* C20                                                                     *)
(***************************************************************************)
\* Float f is the conversion of int n: n itself when |n| <= 2^24, where every
\* int is a float, the rounded value otherwise.
FloatIs(f, n) ==
  IF -16777216 <= n /\ n <= 16777216
    THEN f[2] \in 0..24 /\ f[1] * (2 ^ f[2]) = n
    ELSE f = FloatOfInt(n)

\* The same for a uint32_t given as its bit pattern.
FloatIsUnsigned(f, b) == IF b >= 0 THEN FloatIs(f, b) ELSE f = FloatOfUint32(b)

ViewportCommands(t, e) == {i \in Positions(t, "vkCmdSetViewport") : t[i].eye = e}

RegionDrawn ==
  phase = "live" /\ IsInRangeRender(lastOp, renderer.swapchain_image_count_)

\* C20 as claimed: the viewport of an eye is a column of the region's height
\* and half its width, at x for the left eye and at x + width/2 for the right
\* eye.
C20_ViewportHalfColumn ==
  RegionDrawn =>
    LET f == lastOp.frame
        half == UDiv2(f.width)
    IN \A e \in Eyes :
         /\ FloatIs(renderer.viewport_[e].x,
                    IF e = kLeft THEN f.x ELSE WrapAdd32(f.x, half))
         /\ FloatIs(renderer.viewport_[e].y, f.y)
         /\ FloatIsUnsigned(renderer.viewport_[e].width, half)
         /\ FloatIsUnsigned(renderer.viewport_[e].height, f.height)

\* C20: for every draw region (x, y, width, height) the viewport of each eye
\* is the whole region: x, y, width and height converted to float (width and
\* height as uint32_t), depth range 0 to 1, the same for both eyes; each eye's
\* vkCmdSetViewport records it.  Only the scissor splits the region.
C20_ViewportWholeRegion ==
  RegionDrawn =>
    LET f == lastOp.frame
    IN /\ \A e \in Eyes :
            /\ FloatIs(renderer.viewport_[e].x, f.x)
            /\ FloatIs(renderer.viewport_[e].y, f.y)
            /\ FloatIsUnsigned(renderer.viewport_[e].width, f.width)
            /\ FloatIsUnsigned(renderer.viewport_[e].height, f.height)
            /\ FloatIs(renderer.viewport_[e].minDepth, 0)
            /\ FloatIs(renderer.viewport_[e].maxDepth, 1)
            /\ Cardinality(ViewportCommands(trace, e)) = 1
            /\ \A i \in ViewportCommands(trace, e) : trace[i].arg = renderer.viewport_[e]
       /\ renderer.viewport_[kLeft] = renderer.viewport_[kRight]

\* The region (0, 0, 1000, 500) drawn: the right eye's viewport starts at 0 and
\* is 1000 = 125 * 2^3 wide, while its scissor starts at 500.
C20_Witness ==
  /\ RegionDrawn
  /\ lastOp.frame.width = 1000
  /\ renderer.viewport_[kRight].x = <<0, 0>>
  /\ renderer.viewport_[kRight].width = <<125, 3>>
  /\ renderer.scissor_[kRight].offset.x = 500


(***************************************************************************)
(* C21                                                                     *)
(***************************************************************************)
LivePipelines(d) == {h \in Pipelines(d) : IsLive(d, h)}

PipelineDestroys(t, e) == {i \in Positions(t, "vkDestroyPipeline") : t[i].eye = e}

\* Every live pipeline is the one its eye's member refers to, the two eyes
\* never share one, and none is left once the renderer is destroyed.
C21_State ==
  /\ phase = "live" =>
       /\ LivePipelines(device) \subseteq {renderer.graphics_pipeline_[e] : e \in Eyes}
       /\ renderer.graphics_pipeline_[kLeft] # VK_NULL_HANDLE
            => renderer.graphics_pipeline_[kLeft] # renderer.graphics_pipeline_[kRight]
  /\ phase = "destroyed" => LivePipelines(device) = {}
  /\ \A h \in Pipelines(device) : device.destroyed[h] <= 1

\* An operation builds at most one pipeline per eye, and before the build it
\* destroys the eye's existing pipeline, or destroys none when there is none.
C21_Step ==
  phase = "live" /\ phase' = "live" =>
    \A e \in Eyes :
      /\ Cardinality(BuildsOf(trace', e)) <= 1
      /\ \A i \in BuildsOf(trace', e) :
           IF renderer.graphics_pipeline_[e] # VK_NULL_HANDLE
             THEN /\ Cardinality(PipelineDestroys(trace', e)) = 1
                  /\ \A j \in PipelineDestroys(trace', e) :
                       j < i /\ trace'[j].h = renderer.graphics_pipeline_[e]
             ELSE PipelineDestroys(trace', e) = {}
      /\ BuildsOf(trace', e) = {} => PipelineDestroys(trace', e) = {}

\* C21: each eye has at most one live pipeline at any time:
\* CreateGraphicsPipeline destroys the eye's existing pipeline before it
\* creates the new one and destroys nothing when none exists, so pipelines
\* created minus pipelines destroyed never exceeds one per eye.
C21_OneLivePipelinePerEye == []C21_State /\ [][C21_Step]_vars

\* A second rebuild: two pipelines destroyed, two live.
C21_Witness ==
  /\ phase = "live"
  /\ Cardinality(LivePipelines(device)) = 2
  /\ Cardinality(Pipelines(device) \ LivePipelines(device)) = 2
  /\ \A e \in Eyes : PipelineDestroys(trace, e) # {}


(***************************************************************************)
(* C22                                                                     *)
(***************************************************************************)
\* Bit i of the bit pattern b >= 0 is set.
BitIsSet(b, i) ==
  \E hi \in 0..b, lo \in 0..((2 ^ i) - 1) : b = hi * (2 ^ (i + 1)) + (2 ^ i) + lo

\* The indices of the device's memory types that suit (typeFilter, properties).
Suitable(typeFilter, properties) ==
  {i \in 0..(Len(DeviceMemoryTypes) - 1) :
     BitIsSet(typeFilter, i) /\ \A p \in properties : p \in DeviceMemoryTypes[i + 1]}

\* C22: FindMemoryType returns the lowest index below the memory-type count
\* whose bit is set in typeFilter and whose flags include every requested
\* flag, and 0 when there is none; CreateBuffer allocates the memory with the
\* index returned (so with type 0 when none suits) and binds it to the buffer.
C22_FindMemoryType ==
  lastOp.op = "CreateBuffer" =>
    LET suitable == Suitable(lastOp.typeFilter, lastOp.properties)
    IN /\ suitable # {} =>
            lastOp.found \in suitable /\ \A j \in suitable : lastOp.found <= j
       /\ suitable = {} => lastOp.found = 0
       /\ Cardinality(Positions(trace, "vkAllocateMemory")) = 1
       /\ \A i \in Positions(trace, "vkAllocateMemory") :
            /\ trace[i].arg = lastOp.found
            /\ IsLive(device, trace[i].h)
            /\ device.kind[trace[i].h] = "memory"
            /\ device.info[trace[i].h] = lastOp.found
            /\ \E j \in Positions(trace, "vkBindBufferMemory") :
                 i < j /\ trace[j].arg = trace[i].h /\ IsLive(device, trace[j].h)

\* No memory type suits (only type 0 is DEVICE_LOCAL-only and its bit is not
\* set): memory of type 0 is allocated all the same.
C22_Witness ==
  /\ lastOp.op = "CreateBuffer"
  /\ lastOp.typeFilter = 6
  /\ lastOp.properties = {"DEVICE_LOCAL"}
  /\ lastOp.found = 0
  /\ \E h \in Handles : device.kind[h] = "memory" /\ device.info[h] = 0


(***************************************************************************)
(* C23                                                                     *)
(***************************************************************************)
\* The number of indices the index buffer h holds.
IndicesHeld(d, h) == d.info[h] \div SizeofIndex

\* C23: once SetMesh has set a mesh on both eyes, every indexed draw of an
\* in-range RenderEyeToDisplay takes no more indices than the index buffer
\* bound for its eye holds.
C23_DrawWithinIndexBuffer ==
  ( /\ phase = "live"
    /\ IsInRangeRender(lastOp, renderer.swapchain_image_count_)
    /\ \A e \in Eyes : /\ IsLive(device, renderer.index_buffers_[e])
                       /\ device.kind[renderer.index_buffers_[e]] = "index_buffer" )
    => \A i \in Positions(trace, "vkCmdDrawIndexed") :
         trace[i].arg.indexCount
           <= IndicesHeld(device, renderer.index_buffers_[trace[i].eye])


(***************************************************************************)
(* C24                                                                     *)
(***************************************************************************)
\* C24: every in-range RenderEyeToDisplay binds, for each eye, a vertex buffer
\* and an index buffer that a SetMesh created and that are live, also when no
\* SetMesh has been called for the eye.
C24_DrawBindsMeshBuffers ==
  (phase = "live" /\ IsInRangeRender(lastOp, renderer.swapchain_image_count_))
    => /\ \A i \in Positions(trace, "vkCmdBindVertexBuffers") :
            IsLive(device, trace[i].h) /\ device.kind[trace[i].h] = "vertex_buffer"
       /\ \A i \in Positions(trace, "vkCmdBindIndexBuffer") :
            IsLive(device, trace[i].h) /\ device.kind[trace[i].h] = "index_buffer"


(***************************************************************************)
(* C25                                                                     *)
(***************************************************************************)
\* C25: every destroy or free the destructor issues is for a handle the
\* renderer created and that was live until then (a destroy of VK_NULL_HANDLE,
\* which does nothing, aside): never for a handle that was never created.
C25_DestructorDestroysOnlyCreated ==
  phase = "destroyed" =>
    \A i \in 1..Len(trace) :
      IsDestruction(trace[i]) =>
        \/ trace[i].h = VK_NULL_HANDLE
        \/ IsCreated(device, trace[i].h) /\ device.destroyed[trace[i].h] = 1

====
